---- MODULE Spec2Model ----
(***************************************************************************)
(* Model of generate_field.ipynb: the three-dipole field model of the TIRF *)
(* electromagnet and the notebook run that builds the four voltage/field   *)
(* data sets.                                                              *)
(*                                                                         *)
(* Numbers.  The notebook computes in IEEE doubles; here every real        *)
(* quantity is an integer count of a fixed grid step:                      *)
(*   voltage            1 V                                                *)
(*   position, distance 1/PosDen                                           *)
(*   tanh value         1/TanhOne                                          *)
(*   dipole magnitude   10^7 (linear track), 10^7/TanhOne (non-linear)     *)
(*   mu0                10^-7                                              *)
(*   field              PosDen^3/FieldDen (times 1/TanhOne, non-linear)    *)
(* Sums and products are exact.  The operations whose result is not on the *)
(* grid are rounded to it, as the doubles round them: the square root in   *)
(* mag, the division by a power of the distance (a multiplication by the   *)
(* rounded reciprocal), tanh, the linspace step and the uniform draw.      *)
(***************************************************************************)
EXTENDS Integers, Sequences, FiniteSets, TLC

VARIABLES
    pc,                             \* next notebook cell to execute (execution_count)
    error,                          \* exception that stopped the run, or "none"
    rng,                            \* hidden state of numpy's global random generator
    names,                          \* names bound in the kernel namespace
    calls,                          \* number of total_field invocations so far
    saved,                          \* csv files written
    v_range, N1, N2, N_val,         \* parameters assigned by the cells
    V_ind, B_ind, individual_calibration_set,
    B_nl_ind, nl_individual_calibration_set,
    V_rand, B_rand, V_full, B_full, full_calibration_set,
    V_val, B_val, val_set,
    q                               \* last direct evaluation of a function (function-level runs)

nbvars == <<pc, error, rng, names, calls, saved, v_range, N1, N2, N_val,
            V_ind, B_ind, individual_calibration_set,
            B_nl_ind, nl_individual_calibration_set,
            V_rand, B_rand, V_full, B_full, full_calibration_set,
            V_val, B_val, val_set>>

vars == <<nbvars, q>>

----------------------------------------------------------------------------
(* Grid resolutions and exploration bounds *)

PosDen == 12
FieldDen == 100000000
MaxN == 3
RngMod == 8
MaxLen == 2
FineDen == 10000
QuotDen == 1000

----------------------------------------------------------------------------
(* Arithmetic on the grid *)

Abs(x) == IF x < 0 THEN -x ELSE x

\* a / b rounded to the nearest grid point (b > 0)
RoundDiv(a, b) == (2 * a + b) \div (2 * b)

RECURSIVE SqrtFrom(_, _)
SqrtFrom(n, k) == IF (k + 1) * (k + 1) > n THEN k ELSE SqrtFrom(n, k + 1)

\* square root rounded to the nearest grid point (n >= 0)
Sqrt(n) ==
    LET f == SqrtFrom(n, 0)
    IN  IF n - f * f > f THEN f + 1 ELSE f

\* 1 / y on the field grid (y > 0)
Recip(y) == FieldDen \div y

VAdd(x, y) == <<x[1] + y[1], x[2] + y[2], x[3] + y[3]>>
VSub(x, y) == <<x[1] - y[1], x[2] - y[2], x[3] - y[3]>>
VScale(c, x) == <<c * x[1], c * x[2], c * x[3]>>
Zero3 == <<0, 0, 0>>

\* np.dot
dot(x, y) == x[1] * y[1] + x[2] * y[2] + x[3] * y[3]

\* mag(x): np.sqrt(np.dot(x,x))
mag(x) == Sqrt(dot(x, x))

\* np.tanh on the grid: TanhTable[k+1] = round(TanhOne * tanh(k/15)); beyond the
\* table the rounded value is 1, as the double tanh is for arguments above 19.06
TanhTable ==
    <<0, 7, 13, 20, 26, 32, 38, 44, 49, 54, 58, 63, 66, 70, 73, 76, 79, 81, 83,
      85, 87, 89, 90, 91, 92, 93, 94, 95, 95, 96, 96, 97, 97, 98, 98, 98, 98, 99,
      99, 99, 99, 99, 99, 99, 99, 100>>

TanhOne == TanhTable[Len(TanhTable)]

\* tanh(n/d) for d > 0
tanh(n, d) ==
    LET k == (Abs(n) * 15) \div d
        t == IF k + 1 > Len(TanhTable) THEN TanhOne ELSE TanhTable[k + 1]
    IN  IF n < 0 THEN -t ELSE t

----------------------------------------------------------------------------
(* Constants and the setup parameters *)

\* mu0 = 10**-7, counted in units of 10^-7
mu0 == 1
\* m = 1e8, counted in units of 10^7, so that mu0*m = 10 as in the notebook
m == 10

\* (1, 0, 1) and (-cos(pi/3), +-sin(pi/3), 1) on the position grid
R1 == <<PosDen, 0, PosDen>>
R2 == <<-(PosDen \div 2), RoundDiv(866 * PosDen, 1000), PosDen>>
R3 == <<-(PosDen \div 2), -RoundDiv(866 * PosDen, 1000), PosDen>>

A == <<0, 0, 1>>

r0 == <<0, 0, 0>>

nf == 15

----------------------------------------------------------------------------
(* Functions for the field calculations *)

\* variant: the singular branch hands back the moment vector instead of zeros
dipole_field_singular_nonzero(r, rd, md, a) ==
    LET M == VScale(md, a)
        R == VSub(r, rd)
    IN  IF dot(R, R) = 0
        THEN VScale(mu0, M)
        ELSE VScale(mu0,
                    VSub(VScale(3 * dot(M, R) * Recip(mag(R) ^ 5), R),
                         VScale(Recip(mag(R) ^ 3), M)))

dipole_field(r, rd, md, a) ==
    LET M == VScale(md, a)
        R == VSub(r, rd)
    IN  IF dot(R, R) = 0
        THEN Zero3
        ELSE VScale(mu0,
                    VSub(VScale(3 * dot(M, R) * Recip(mag(R) ^ 5), R),
                         VScale(Recip(mag(R) ^ 3), M)))

\* variant: poles 1 and 2 take each other's magnitude
total_field_swapped(r, m_array, dipole_axis) ==
    LET B1 == dipole_field(r, R1, m_array[2], dipole_axis)
        B2 == dipole_field(r, R2, m_array[1], dipole_axis)
        B3 == dipole_field(r, R3, m_array[3], dipole_axis)
    IN  VAdd(VAdd(B1, B2), B3)

\* variant: a constant ambient field B0 is added to the sum
total_field_ambient(r, m_array, dipole_axis) ==
    LET B1 == dipole_field(r, R1, m_array[1], dipole_axis)
        B2 == dipole_field(r, R2, m_array[2], dipole_axis)
        B3 == dipole_field(r, R3, m_array[3], dipole_axis)
    IN  VAdd(VAdd(VAdd(B1, B2), B3), <<0, 0, 5>>)

total_field(r, m_array, dipole_axis) ==
    LET B1 == dipole_field(r, R1, m_array[1], dipole_axis)
        B2 == dipole_field(r, R2, m_array[2], dipole_axis)
        B3 == dipole_field(r, R3, m_array[3], dipole_axis)
    IN  VAdd(VAdd(B1, B2), B3)

----------------------------------------------------------------------------
(* The field functions on a fine grid, for values that are compared with    *)
(* decimals: positions and distances count 1/FineDen, a quotient by a power *)
(* of the distance counts 1/QuotDen, the field 1/(QuotDen*FineDen).  Every  *)
(* product of two distances and every quotient is rounded to its grid.      *)

RECURSIVE SqrtBetween(_, _, _)
\* largest k in lo..hi with k*k <= n, by bisection (lo*lo <= n < (hi+1)*(hi+1))
SqrtBetween(n, lo, hi) ==
    IF lo >= hi THEN lo
    ELSE LET mid == (lo + hi + 1) \div 2
         IN  IF mid * mid <= n THEN SqrtBetween(n, mid, hi)
                               ELSE SqrtBetween(n, lo, mid - 1)

\* np.sqrt rounded to the nearest grid point, 0 <= n < 46340^2
SqrtNear(n) ==
    LET f == SqrtBetween(n, 0, 46339)
    IN  IF n - f * f > f THEN f + 1 ELSE f

\* mag(x) for x on the fine grid
mag_fine(x) == SqrtNear(dot(x, x))

RECURSIVE PowFine(_, _)
\* y**k for a distance y on the fine grid, k >= 1
PowFine(y, k) == IF k = 1 THEN y ELSE RoundDiv(PowFine(y, k - 1) * y, FineDen)

R1_fine == <<FineDen, 0, FineDen>>
R2_fine == <<-(FineDen \div 2), RoundDiv(86603 * FineDen, 100000), FineDen>>
R3_fine == <<-(FineDen \div 2), -RoundDiv(86603 * FineDen, 100000), FineDen>>

\* variant: the first term is divided by the third power of the distance
dipole_field_fine_cubed(r, rd, md, a) ==
    LET M == VScale(md, a)
        R == VSub(r, rd)
        c == RoundDiv(dot(M, R) * QuotDen, PowFine(mag_fine(R), 3))
        d == [i \in 1..3 |-> RoundDiv(M[i] * FineDen * QuotDen, PowFine(mag_fine(R), 3))]
    IN  IF dot(R, R) = 0
        THEN Zero3
        ELSE VScale(mu0, VSub(VScale(3 * c, R), VScale(FineDen, <<d[1], d[2], d[3]>>)))

\* dipole_field with r and rd on the fine grid:
\* c is np.dot(M,R)/mag(R)**5 and d is M/mag(R)**3, each rounded to 1/QuotDen
dipole_field_fine(r, rd, md, a) ==
    LET M == VScale(md, a)
        R == VSub(r, rd)
        c == RoundDiv(dot(M, R) * QuotDen, PowFine(mag_fine(R), 5))
        d == [i \in 1..3 |-> RoundDiv(M[i] * FineDen * QuotDen, PowFine(mag_fine(R), 3))]
    IN  IF dot(R, R) = 0
        THEN Zero3
        ELSE VScale(mu0, VSub(VScale(3 * c, R), VScale(FineDen, <<d[1], d[2], d[3]>>)))

total_field_fine(r, m_array, dipole_axis) ==
    LET B1 == dipole_field_fine(r, R1_fine, m_array[1], dipole_axis)
        B2 == dipole_field_fine(r, R2_fine, m_array[2], dipole_axis)
        B3 == dipole_field_fine(r, R3_fine, m_array[3], dipole_axis)
    IN  VAdd(VAdd(B1, B2), B3)

----------------------------------------------------------------------------
(* Voltage to dipole magnitude: the argument of total_field in the loops *)

\* variant: proportional mapping with an offset
LinearMoment_offset(V) == VAdd(VScale(m, V), <<1, 1, 1>>)

\* V * m
LinearMoment(V) == VScale(m, V)

\* variant: the tanh is left out, v_range*(V/nf) * m
NonlinearMoment_unsaturated(V) ==
    <<v_range * ((V[1] * TanhOne) \div nf) * m,
      v_range * ((V[2] * TanhOne) \div nf) * m,
      v_range * ((V[3] * TanhOne) \div nf) * m>>

\* v_range*np.tanh(V/nf) * m
NonlinearMoment(V) ==
    <<v_range * tanh(V[1], nf) * m,
      v_range * tanh(V[2], nf) * m,
      v_range * tanh(V[3], nf) * m>>

\* for V in Vs: B.append(total_field(r0, V * m, A))
loop_linear(Vs) ==
    [i \in 1..Len(Vs) |-> total_field(r0, LinearMoment(Vs[i]), A)]

\* variant: the non-linear loop computes the linear track's field
loop_nonlinear_other_mode(Vs) ==
    [i \in 1..Len(Vs) |-> total_field(r0, LinearMoment(Vs[i]), A)]

\* for V in Vs: B.append(total_field(r0, v_range*np.tanh(V/nf) * m, A))
loop_nonlinear(Vs) ==
    [i \in 1..Len(Vs) |-> total_field(r0, NonlinearMoment(Vs[i]), A)]

----------------------------------------------------------------------------
(* numpy: linspace, zeros, concatenate, stack, random.uniform *)

\* variant: the endpoint is left out, the step is (stop-start)/num
linspace_open(start, stop, num) ==
    [i \in 1..num |-> start + RoundDiv((i - 1) * (stop - start), num)]

\* np.linspace(start, stop, num), num >= 0: element i is start + i*(stop-start)/(num-1)
\* rounded to the grid, and the last element is set to stop when num > 1
linspace(start, stop, num) ==
    [i \in 1..num |->
        IF num > 1 /\ i = num THEN stop
        ELSE IF num = 1 THEN start
        ELSE start + RoundDiv((i - 1) * (stop - start), num - 1)]

zeros(n) == [i \in 1..n |-> 0]

\* variant: the second block is put first
concatenate_reversed(a, b) == b \o a

\* np.concatenate((a, b)) along axis 0
concatenate(a, b) == a \o b

concatenate3(a, b, c) == a \o b \o c

\* np.stack((a, b, c), axis=1)
stack(a, b, c) == [i \in 1..Len(a) |-> <<a[i], b[i], c[i]>>]

\* one step of the generator
RngStep(s) == (5 * s + 3) % RngMod

RECURSIVE RngAt(_, _)
RngAt(s, k) == IF k = 0 THEN s ELSE RngAt(RngStep(s), k - 1)

\* np.random.uniform(low, high, (n, 3)) drawn from generator state s, n >= 0:
\* low + (high-low)*u with u in [0,1), filled row by row
uniform(low, high, n, s) ==
    [i \in 1..n |->
        <<low + ((high - low) * RngAt(s, 3 * (i - 1) + 1)) \div RngMod,
          low + ((high - low) * RngAt(s, 3 * (i - 1) + 2)) \div RngMod,
          low + ((high - low) * RngAt(s, 3 * (i - 1) + 3)) \div RngMod>>]

----------------------------------------------------------------------------
(* Sampling and assembly *)

\* variant: the sweeps of poles 1 and 2 are placed in each other's block
individual_misplaced(N) ==
    LET V1 == concatenate3(zeros(N), linspace(-v_range, v_range, N), zeros(N))
        V2 == concatenate3(linspace(-v_range, v_range, N), zeros(N), zeros(N))
        V3 == concatenate3(zeros(N), zeros(N), linspace(-v_range, v_range, N))
    IN  stack(V1, V2, V3)

\* V1, V2, V3, V_ind: apply voltage to a single coil in a linear fashion
individual(N) ==
    LET V1 == concatenate3(linspace(-v_range, v_range, N), zeros(N), zeros(N))
        V2 == concatenate3(zeros(N), linspace(-v_range, v_range, N), zeros(N))
        V3 == concatenate3(zeros(N), zeros(N), linspace(-v_range, v_range, N))
    IN  stack(V1, V2, V3)

\* variant: rows are joined up to the shorter length without a shape check
AssembleRaises_unchecked(B, V) == Len(B) = 0

\* np.concatenate((B, V), axis = 1) raises ValueError unless B and V have the same
\* number of rows; B is a list of field vectors, and an empty list is a
\* one-dimensional array that cannot be joined to the two-dimensional V
AssembleRaises(B, V) == Len(B) = 0 \/ Len(B) # Len(V)

\* pd.DataFrame(np.concatenate((B, V), axis = 1), columns = [B_x, B_y, B_z, V_1, V_2, V_3])
\* rows are joined positionally
Assemble(B, V) ==
    [i \in 1..(IF Len(B) < Len(V) THEN Len(B) ELSE Len(V)) |-> B[i] \o V[i]]

\* np.concatenate((B_nl_ind, B_rand)): an empty list cannot be joined to a
\* non-empty list of vectors
JoinRaises(a, b) == (Len(a) = 0) # (Len(b) = 0)

----------------------------------------------------------------------------
(* The notebook run: the cells in execution order; an exception stops it *)

VRanges == {-10, 0, 10}
Counts == -1..MaxN
Seeds == 0..(RngMod - 1)

Running(c) == pc = c /\ error = "none"

\* the kernel after the imports and the function definitions (cells 1 and 2)
Init ==
    /\ pc = 3
    /\ error = "none"
    /\ rng \in Seeds
    /\ names = {}
    /\ calls = 0
    /\ saved = {}
    /\ v_range = 0 /\ N1 = 0 /\ N2 = 0 /\ N_val = 0
    /\ V_ind = <<>> /\ B_ind = <<>> /\ individual_calibration_set = <<>>
    /\ B_nl_ind = <<>> /\ nl_individual_calibration_set = <<>>
    /\ V_rand = <<>> /\ B_rand = <<>> /\ V_full = <<>> /\ B_full = <<>>
    /\ full_calibration_set = <<>>
    /\ V_val = <<>> /\ B_val = <<>> /\ val_set = <<>>
    /\ q = [op |-> "none"]

\* cell 3: constants and the setup parameters
Cell3 ==
    /\ Running(3)
    /\ \E v \in VRanges : v_range' = v
    /\ names' = names \cup {"v_range"}
    /\ pc' = 4
    /\ UNCHANGED <<error, rng, calls, saved, N1, N2, N_val, V_ind, B_ind,
                   individual_calibration_set, B_nl_ind, nl_individual_calibration_set,
                   V_rand, B_rand, V_full, B_full, full_calibration_set,
                   V_val, B_val, val_set, q>>

\* cell 4: N1 and V_ind; np.linspace raises ValueError for a negative count
Cell4 ==
    /\ Running(4)
    /\ \E n \in Counts : N1' = n
    /\ IF N1' < 0
       THEN /\ error' = "ValueError"
            /\ names' = names \cup {"N1"}
            /\ UNCHANGED <<pc, V_ind>>
       ELSE /\ V_ind' = individual(N1')
            /\ names' = names \cup {"N1", "V_ind"}
            /\ pc' = 5
            /\ UNCHANGED error
    /\ UNCHANGED <<rng, calls, saved, v_range, N2, N_val, B_ind,
                   individual_calibration_set, B_nl_ind, nl_individual_calibration_set,
                   V_rand, B_rand, V_full, B_full, full_calibration_set,
                   V_val, B_val, val_set, q>>

\* cell 5: B_ind and individual_calibration_set
Cell5 ==
    /\ Running(5)
    /\ B_ind' = loop_linear(V_ind)
    /\ calls' = calls + Len(V_ind)
    /\ IF AssembleRaises(B_ind', V_ind)
       THEN /\ error' = "ValueError"
            /\ names' = names \cup {"B_ind"}
            /\ UNCHANGED <<pc, individual_calibration_set>>
       ELSE /\ individual_calibration_set' = Assemble(B_ind', V_ind)
            /\ names' = names \cup {"B_ind", "individual_calibration_set"}
            /\ pc' = 6
            /\ UNCHANGED error
    /\ UNCHANGED <<rng, saved, v_range, N1, N2, N_val, V_ind,
                   B_nl_ind, nl_individual_calibration_set,
                   V_rand, B_rand, V_full, B_full, full_calibration_set,
                   V_val, B_val, val_set, q>>

\* cell 6: individual_calibration_set.head()
Cell6 ==
    /\ Running(6)
    /\ pc' = 7
    /\ UNCHANGED <<error, rng, names, calls, saved, v_range, N1, N2, N_val, V_ind, B_ind,
                   individual_calibration_set, B_nl_ind, nl_individual_calibration_set,
                   V_rand, B_rand, V_full, B_full, full_calibration_set,
                   V_val, B_val, val_set, q>>

\* cell 7: individual_calibration_set.to_csv
Cell7 ==
    /\ Running(7)
    /\ saved' = saved \cup {"individual_calibration_set.csv"}
    /\ pc' = 8
    /\ UNCHANGED <<error, rng, names, calls, v_range, N1, N2, N_val, V_ind, B_ind,
                   individual_calibration_set, B_nl_ind, nl_individual_calibration_set,
                   V_rand, B_rand, V_full, B_full, full_calibration_set,
                   V_val, B_val, val_set, q>>

\* cell 8: B_nl_ind and nl_individual_calibration_set
Cell8 ==
    /\ Running(8)
    /\ B_nl_ind' = loop_nonlinear(V_ind)
    /\ calls' = calls + Len(V_ind)
    /\ IF AssembleRaises(B_nl_ind', V_ind)
       THEN /\ error' = "ValueError"
            /\ names' = names \cup {"B_nl_ind"}
            /\ UNCHANGED <<pc, nl_individual_calibration_set>>
       ELSE /\ nl_individual_calibration_set' = Assemble(B_nl_ind', V_ind)
            /\ names' = names \cup {"B_nl_ind", "nl_individual_calibration_set"}
            /\ pc' = 9
            /\ UNCHANGED error
    /\ UNCHANGED <<rng, saved, v_range, N1, N2, N_val, V_ind, B_ind,
                   individual_calibration_set,
                   V_rand, B_rand, V_full, B_full, full_calibration_set,
                   V_val, B_val, val_set, q>>

\* cell 9: nl_individual_calibration_set.to_csv
Cell9 ==
    /\ Running(9)
    /\ saved' = saved \cup {"nl_individual_calibration_set.csv"}
    /\ pc' = 10
    /\ UNCHANGED <<error, rng, names, calls, v_range, N1, N2, N_val, V_ind, B_ind,
                   individual_calibration_set, B_nl_ind, nl_individual_calibration_set,
                   V_rand, B_rand, V_full, B_full, full_calibration_set,
                   V_val, B_val, val_set, q>>

\* cell 10: N2, V_rand, B_rand, V_full, B_full and full_calibration_set;
\* np.random.uniform raises ValueError for a negative count
Cell10 ==
    /\ Running(10)
    /\ \E n \in Counts : N2' = n
    /\ IF N2' < 0
       THEN /\ error' = "ValueError"
            /\ names' = names \cup {"N2"}
            /\ UNCHANGED <<pc, rng, calls, V_rand, B_rand, V_full, B_full,
                           full_calibration_set>>
       ELSE /\ V_rand' = uniform(-v_range, v_range, N2', rng)
            /\ rng' = RngAt(rng, 3 * N2')
            /\ B_rand' = loop_nonlinear(V_rand')
            /\ calls' = calls + N2'
            /\ V_full' = concatenate(V_ind, V_rand')
            /\ IF JoinRaises(B_nl_ind, B_rand')
               THEN /\ error' = "ValueError"
                    /\ names' = names \cup {"N2", "V_rand", "B_rand", "V_full"}
                    /\ UNCHANGED <<pc, B_full, full_calibration_set>>
               ELSE /\ B_full' = concatenate(B_nl_ind, B_rand')
                    /\ IF AssembleRaises(B_full', V_full')
                       THEN /\ error' = "ValueError"
                            /\ names' = names \cup {"N2", "V_rand", "B_rand", "V_full",
                                                    "B_full"}
                            /\ UNCHANGED <<pc, full_calibration_set>>
                       ELSE /\ full_calibration_set' = Assemble(B_full', V_full')
                            /\ names' = names \cup {"N2", "V_rand", "B_rand", "V_full",
                                                    "B_full", "full_calibration_set"}
                            /\ pc' = 11
                            /\ UNCHANGED error
    /\ UNCHANGED <<saved, v_range, N1, N_val, V_ind, B_ind,
                   individual_calibration_set, B_nl_ind, nl_individual_calibration_set,
                   V_val, B_val, val_set, q>>

\* cell 11: full_calibration_set.to_csv
Cell11 ==
    /\ Running(11)
    /\ saved' = saved \cup {"full_calibration_set.csv"}
    /\ pc' = 12
    /\ UNCHANGED <<error, rng, names, calls, v_range, N1, N2, N_val, V_ind, B_ind,
                   individual_calibration_set, B_nl_ind, nl_individual_calibration_set,
                   V_rand, B_rand, V_full, B_full, full_calibration_set,
                   V_val, B_val, val_set, q>>

\* cell 12: N_val
Cell12 ==
    /\ Running(12)
    /\ \E n \in Counts : N_val' = n
    /\ names' = names \cup {"N_val"}
    /\ pc' = 13
    /\ UNCHANGED <<error, rng, calls, saved, v_range, N1, N2, V_ind, B_ind,
                   individual_calibration_set, B_nl_ind, nl_individual_calibration_set,
                   V_rand, B_rand, V_full, B_full, full_calibration_set,
                   V_val, B_val, val_set, q>>

\* cell 13: V_val, B_val and val_set
Cell13 ==
    /\ Running(13)
    /\ IF N_val < 0
       THEN /\ error' = "ValueError"
            /\ UNCHANGED <<pc, rng, names, calls, V_val, B_val, val_set>>
       ELSE /\ V_val' = uniform(-v_range, v_range, N_val, rng)
            /\ rng' = RngAt(rng, 3 * N_val)
            /\ B_val' = loop_nonlinear(V_val')
            /\ calls' = calls + N_val
            /\ IF AssembleRaises(B_val', V_val')
               THEN /\ error' = "ValueError"
                    /\ names' = names \cup {"V_val", "B_val"}
                    /\ UNCHANGED <<pc, val_set>>
               ELSE /\ val_set' = Assemble(B_val', V_val')
                    /\ names' = names \cup {"V_val", "B_val", "val_set"}
                    /\ pc' = 14
                    /\ UNCHANGED error
    /\ UNCHANGED <<saved, v_range, N1, N2, N_val, V_ind, B_ind,
                   individual_calibration_set, B_nl_ind, nl_individual_calibration_set,
                   V_rand, B_rand, V_full, B_full, full_calibration_set, q>>

\* cell 14: val_set.head()
Cell14 ==
    /\ Running(14)
    /\ pc' = 15
    /\ UNCHANGED <<error, rng, names, calls, saved, v_range, N1, N2, N_val, V_ind, B_ind,
                   individual_calibration_set, B_nl_ind, nl_individual_calibration_set,
                   V_rand, B_rand, V_full, B_full, full_calibration_set,
                   V_val, B_val, val_set, q>>

\* cell 15: val_set.to_csv
Cell15 ==
    /\ Running(15)
    /\ saved' = saved \cup {"validation_set.csv"}
    /\ pc' = 16
    /\ UNCHANGED <<error, rng, names, calls, v_range, N1, N2, N_val, V_ind, B_ind,
                   individual_calibration_set, B_nl_ind, nl_individual_calibration_set,
                   V_rand, B_rand, V_full, B_full, full_calibration_set,
                   V_val, B_val, val_set, q>>

Next ==
    \/ Cell3 \/ Cell4 \/ Cell5 \/ Cell6 \/ Cell7 \/ Cell8 \/ Cell9
    \/ Cell10 \/ Cell11 \/ Cell12 \/ Cell13 \/ Cell14 \/ Cell15

Spec == Init /\ [][Next]_vars

----------------------------------------------------------------------------
(* Function-level runs: each function applied directly to arguments drawn  *)
(* from bounded sets, in a kernel where cell 3 has set v_range = 10        *)

Points == {r0, R1, R2, R3}
Poles == {R1, R2, R3}
Axes == {A, <<1, 0, 0>>, <<0, 1, 1>>}
Magnitudes == {-100, -1, 0, 7, 100}
MomentVectors == {<<a, b, c>> : a, b, c \in {-100, 0, 70}}
LinearVolts == {<<a, b, c>> : a, b, c \in {-10, -3, 0, 4, 10}}
Scalars == {-3, -1, 0, 2}
LinearIncrements == {<<a, b, c>> : a, b, c \in {-7, 0, 10}}
WideVolts == {<<a, b, c>> : a, b, c \in {-300, -10, 0, 10, 44, 300}}
FieldRows == {<<0, 0, 0>>, <<3, 0, 1>>}
VoltageRows == {<<0, 0, 0>>, <<-10, 0, 0>>}

SeqsUpTo(S, n) == UNION {[1..k -> S] : k \in 0..n}

InitEval ==
    /\ pc = 0
    /\ error = "none"
    /\ rng = 0
    /\ names = {"v_range"}
    /\ calls = 0
    /\ saved = {}
    /\ v_range = 10 /\ N1 = 0 /\ N2 = 0 /\ N_val = 0
    /\ V_ind = <<>> /\ B_ind = <<>> /\ individual_calibration_set = <<>>
    /\ B_nl_ind = <<>> /\ nl_individual_calibration_set = <<>>
    /\ V_rand = <<>> /\ B_rand = <<>> /\ V_full = <<>> /\ B_full = <<>>
    /\ full_calibration_set = <<>>
    /\ V_val = <<>> /\ B_val = <<>> /\ val_set = <<>>
    /\ q = [op |-> "none"]

EvalDipoleField ==
    /\ q.op = "none"
    /\ \E r \in Points, rd \in Poles, md \in Magnitudes, a \in Axes :
          q' = [op |-> "dipole_field", r |-> r, rd |-> rd, md |-> md, a |-> a,
                ret |-> dipole_field(r, rd, md, a)]
    /\ UNCHANGED nbvars

EvalTotalField ==
    /\ q.op = "none"
    /\ \E r \in Points, ma \in MomentVectors, a \in Axes :
          q' = [op |-> "total_field", r |-> r, m_array |-> ma, a |-> a,
                ret |-> total_field(r, ma, a)]
    /\ UNCHANGED nbvars

\* one iteration of the linear loop
EvalLinear ==
    /\ q.op = "none"
    /\ \E V \in LinearVolts :
          q' = [op |-> "linear", V |-> V, moment |-> LinearMoment(V),
                ret |-> loop_linear(<<V>>)[1]]
    /\ UNCHANGED nbvars

\* the argument of total_field in the non-linear loops
EvalNonlinear ==
    /\ q.op = "none"
    /\ \E V \in WideVolts :
          q' = [op |-> "nonlinear", V |-> V, moment |-> NonlinearMoment(V)]
    /\ UNCHANGED nbvars

\* the data set assembly applied to any two sequences
EvalAssemble ==
    /\ q.op = "none"
    /\ \E B \in SeqsUpTo(FieldRows, MaxLen), V \in SeqsUpTo(VoltageRows, MaxLen) :
          q' = [op |-> "assemble", B |-> B, V |-> V,
                raised |-> AssembleRaises(B, V),
                df |-> IF AssembleRaises(B, V) THEN <<>> ELSE Assemble(B, V)]
    /\ UNCHANGED nbvars

\* N1 = 128
N1_default == 128

FirstRowCounts == (1..MaxN) \cup {N1_default}

\* the first iteration of the linear loop over individual(N), on the fine grid
EvalFirstRow ==
    /\ q.op = "none"
    /\ \E N \in FirstRowCounts :
          q' = [op |-> "first_row", N |-> N, V |-> individual(N)[1],
                ret |-> total_field_fine(r0, LinearMoment(individual(N)[1]), A)]
    /\ UNCHANGED nbvars

NextEval ==
    \/ EvalDipoleField \/ EvalTotalField \/ EvalLinear \/ EvalNonlinear
    \/ EvalAssemble \/ EvalFirstRow

SpecEval == InitEval /\ [][NextEval]_vars

----------------------------------------------------------------------------
(* Properties *)

FieldOf(row) == <<row[1], row[2], row[3]>>
VoltageOf(row) == <<row[4], row[5], row[6]>>

Produced ==
    names \cap {"individual_calibration_set", "nl_individual_calibration_set",
                "full_calibration_set", "val_set"}

\* C1: in each generated data set the field columns of every row are total_field
\* at the observation point of the dipole magnitudes derived from that row's own
\* voltage columns under the data set's mode (linear for the individual set,
\* non-linear for the other three), and the voltage columns are the sampled ones.
C1_RowsMatchOwnVoltage ==
    /\ \A i \in 1..Len(individual_calibration_set) :
          LET row == individual_calibration_set[i]
          IN  /\ VoltageOf(row) = V_ind[i]
              /\ FieldOf(row) = total_field(r0, LinearMoment(VoltageOf(row)), A)
    /\ \A i \in 1..Len(nl_individual_calibration_set) :
          LET row == nl_individual_calibration_set[i]
          IN  /\ VoltageOf(row) = V_ind[i]
              /\ FieldOf(row) = total_field(r0, NonlinearMoment(VoltageOf(row)), A)
    /\ \A i \in 1..Len(full_calibration_set) :
          LET row == full_calibration_set[i]
          IN  /\ VoltageOf(row) = V_full[i]
              /\ FieldOf(row) = total_field(r0, NonlinearMoment(VoltageOf(row)), A)
    /\ \A i \in 1..Len(val_set) :
          LET row == val_set[i]
          IN  /\ VoltageOf(row) = V_val[i]
              /\ FieldOf(row) = total_field(r0, NonlinearMoment(VoltageOf(row)), A)
    /\ "individual_calibration_set" \in names => Len(individual_calibration_set) = Len(V_ind)
    /\ "nl_individual_calibration_set" \in names
          => Len(nl_individual_calibration_set) = Len(V_ind)
    /\ "full_calibration_set" \in names => Len(full_calibration_set) = Len(V_full)
    /\ "val_set" \in names => Len(val_set) = Len(V_val)

C1_Witness ==
    /\ pc = 16 /\ error = "none" /\ Produced = {"individual_calibration_set",
          "nl_individual_calibration_set", "full_calibration_set", "val_set"}
    /\ v_range = 10 /\ N1 >= 2 /\ N2 >= 1 /\ N_val >= 1
    /\ FieldOf(individual_calibration_set[1]) # FieldOf(nl_individual_calibration_set[1])

\* C2: individual(N) gives exactly 3N voltage vectors, pole 1's block first, then
\* pole 2's, then pole 3's: in the first block coordinates 2 and 3 are zero, in
\* the second coordinates 1 and 3, in the third coordinates 1 and 2.
C2_SweepBlocks ==
    "V_ind" \in names =>
        /\ Len(V_ind) = 3 * N1
        /\ \A i \in 1..N1 : V_ind[i][2] = 0 /\ V_ind[i][3] = 0
        /\ \A i \in (N1 + 1)..(2 * N1) : V_ind[i][1] = 0 /\ V_ind[i][3] = 0
        /\ \A i \in (2 * N1 + 1)..(3 * N1) : V_ind[i][1] = 0 /\ V_ind[i][2] = 0

C2_Witness ==
    /\ "V_ind" \in names /\ N1 >= 2 /\ v_range = 10
    /\ V_ind[1][1] # 0 /\ V_ind[N1 + 1][2] # 0 /\ V_ind[2 * N1 + 1][3] # 0

\* C3: the full data set is the 3*N1 sweep rows in sweep order followed by the N2
\* random rows in draw order, 3*N1 + N2 rows in all; fields and voltages are joined
\* in that same order, so its first 3*N1 rows are the non-linear individual set.
C3_FullIsSweepThenRandom ==
    "full_calibration_set" \in names =>
        /\ Len(full_calibration_set) = 3 * N1 + N2
        /\ Len(nl_individual_calibration_set) = 3 * N1
        /\ Len(V_rand) = N2 /\ Len(B_rand) = N2
        /\ \A i \in 1..(3 * N1) : full_calibration_set[i] = nl_individual_calibration_set[i]
        /\ \A j \in 1..N2 : full_calibration_set[3 * N1 + j] = B_rand[j] \o V_rand[j]

C3_Witness ==
    /\ "full_calibration_set" \in names /\ N1 >= 2 /\ N2 >= 2 /\ v_range = 10
    /\ full_calibration_set[3 * N1 + 1] # nl_individual_calibration_set[1]

InvalidParameters ==
    \/ "v_range" \in names /\ v_range <= 0
    \/ "N1" \in names /\ N1 <= 0
    \/ "N2" \in names /\ N2 <= 0
    \/ "N_val" \in names /\ N_val <= 0

\* C4: once a sample count <= 0 or V_max <= 0 has been set, no total_field call has
\* occurred, no data set has been produced, and the run does not complete.
C4_InvalidParametersRejected ==
    InvalidParameters => calls = 0 /\ Produced = {} /\ pc # 16

\* C5: when the field sequence and the voltage sequence given to the assembly
\* differ in length, the assembly raises and no data set is produced.
C5_LengthMismatchRaises ==
    (q.op = "assemble" /\ Len(q.B) # Len(q.V)) => q.raised /\ q.df = <<>>

C5_Witness ==
    /\ q.op = "assemble" /\ Len(q.B) # Len(q.V) /\ Len(q.B) > 0 /\ Len(q.V) > 0
    /\ q.raised

\* C6: dipole_field at a field point equal to the dipole position is exactly the
\* zero vector for every magnitude and axis; so total_field at a point that
\* coincides with one pole is the sum of the other two poles' fields.
C6_SingularPointIsZero ==
    /\ (q.op = "dipole_field" /\ q.r = q.rd) => q.ret = Zero3
    /\ (q.op = "total_field" /\ q.r = R1)
          => q.ret = VAdd(dipole_field(q.r, R2, q.m_array[2], q.a),
                          dipole_field(q.r, R3, q.m_array[3], q.a))
    /\ (q.op = "total_field" /\ q.r = R2)
          => q.ret = VAdd(dipole_field(q.r, R1, q.m_array[1], q.a),
                          dipole_field(q.r, R3, q.m_array[3], q.a))
    /\ (q.op = "total_field" /\ q.r = R3)
          => q.ret = VAdd(dipole_field(q.r, R1, q.m_array[1], q.a),
                          dipole_field(q.r, R2, q.m_array[2], q.a))

C6_Witness ==
    q.op = "dipole_field" /\ q.r = q.rd /\ q.md # 0 /\ q.ret = Zero3

\* C7: total_field is the elementwise sum of dipole_field over R1, R2, R3, pole k
\* with component k of the magnitudes and the shared axis, nothing else added; with
\* zero magnitude on two poles it is dipole_field of the remaining pole alone.
C7_Superposition ==
    q.op = "total_field" =>
        /\ q.ret = VAdd(VAdd(dipole_field(q.r, R1, q.m_array[1], q.a),
                             dipole_field(q.r, R2, q.m_array[2], q.a)),
                        dipole_field(q.r, R3, q.m_array[3], q.a))
        /\ (q.m_array[2] = 0 /\ q.m_array[3] = 0)
              => q.ret = dipole_field(q.r, R1, q.m_array[1], q.a)
        /\ (q.m_array[1] = 0 /\ q.m_array[3] = 0)
              => q.ret = dipole_field(q.r, R2, q.m_array[2], q.a)
        /\ (q.m_array[1] = 0 /\ q.m_array[2] = 0)
              => q.ret = dipole_field(q.r, R3, q.m_array[3], q.a)

C7_Witness ==
    /\ q.op = "total_field" /\ q.m_array[1] = 0 /\ q.m_array[2] # 0 /\ q.m_array[3] = 0
    /\ q.r = r0 /\ q.ret # Zero3

\* the field of the linear loop for voltage vector V
LinearField(V) == total_field(r0, LinearMoment(V), A)

\* C8: in linear mode the field at the observation point is additive and
\* homogeneous in the voltage vector and zero at zero voltage.
C8_LinearInVoltage ==
    q.op = "linear" =>
        /\ \A W \in LinearIncrements : LinearField(VAdd(q.V, W)) = VAdd(q.ret, LinearField(W))
        /\ \A c \in Scalars : LinearField(VScale(c, q.V)) = VScale(c, q.ret)
        /\ q.V = Zero3 => q.ret = Zero3

C8_Witness ==
    q.op = "linear" /\ q.V[1] # 0 /\ q.V[2] # 0 /\ q.V[3] # 0 /\ q.ret # Zero3

\* C9: the linear voltage-to-magnitude mapping is exactly proportional: doubling
\* the voltage doubles the magnitude, and zero voltage gives zero magnitude.
C9_LinearMomentProportional ==
    q.op = "linear" =>
        /\ LinearMoment(VScale(2, q.V)) = VScale(2, q.moment)
        /\ \A k \in 1..3 : q.V[k] = 0 => q.moment[k] = 0

C9_Witness ==
    q.op = "linear" /\ q.V[1] # 0 /\ q.V[2] = 0 /\ q.moment[1] # 0

\* C10 as stated: the non-linear magnitude is strictly below V_max*scale in
\* absolute value for every voltage.
C10_StrictlyBounded ==
    q.op = "nonlinear" =>
        \A k \in 1..3 : Abs(q.moment[k]) < v_range * TanhOne * m

\* C10 as amended: the non-linear magnitude never exceeds V_max*scale in absolute
\* value, is strictly below it for every voltage within [-V_max, V_max], is zero
\* at zero voltage, and component k depends only on component k of the voltage.
C10_BoundedPerCoil ==
    q.op = "nonlinear" =>
        /\ \A k \in 1..3 : Abs(q.moment[k]) <= v_range * TanhOne * m
        /\ \A k \in 1..3 : Abs(q.V[k]) <= v_range
                              => Abs(q.moment[k]) < v_range * TanhOne * m
        /\ \A k \in 1..3 : q.V[k] = 0 => q.moment[k] = 0
        /\ \A W \in WideVolts : \A k \in 1..3 :
              W[k] = q.V[k] => NonlinearMoment(W)[k] = q.moment[k]

C10_Witness ==
    /\ q.op = "nonlinear"
    /\ Abs(q.moment[1]) = v_range * TanhOne * m
    /\ q.V[2] = 10 /\ q.moment[2] > 0 /\ q.moment[2] < v_range * TanhOne * m

\* C11: the generated rows are reproducible from the recorded inputs of the run:
\* whatever state numpy's generator started in, a run with the same v_range, N2
\* and N_val draws the same random rows for the full and the validation set.
C11_ReproducibleFromInputs ==
    /\ "V_rand" \in names
          => \A s \in Seeds : V_rand = uniform(-v_range, v_range, N2, s)
    /\ "V_val" \in names
          => \A s \in Seeds :
                V_val = uniform(-v_range, v_range, N_val, RngAt(s, 3 * N2))

\* the decimal x/1000 on the fine field grid
Milli(x) == RoundDiv(x * FineDen, 1000) * QuotDen

\* C12: with V_max = 10, N = 128, mu0 = 1e-7 and m = 1e8 in linear mode, the
\* first row of the individual data set has voltages (-10, 0, 0) and each field
\* component within 1e-2 of (-53.033, 0.0, -17.678).
C12_FirstRowField ==
    (q.op = "first_row" /\ q.N = N1_default) =>
        /\ q.V = <<-10, 0, 0>>
        /\ Abs(q.ret[1] - Milli(-53033)) <= Milli(10)
        /\ Abs(q.ret[2] - Milli(0)) <= Milli(10)
        /\ Abs(q.ret[3] - Milli(-17678)) <= Milli(10)

C12_Witness ==
    /\ q.op = "first_row" /\ q.N = N1_default /\ v_range = 10
    /\ q.V[1] = -v_range /\ q.ret[1] < 0 /\ q.ret[3] < 0

\* the active coordinate over pole k's block of V_ind
SweepOf(k) == [i \in 1..N1 |-> V_ind[(k - 1) * N1 + i][k]]

\* every value is the point of the uniform subdivision of lo..hi nearest on the grid
EvenlySpaced(s, lo, hi) ==
    \A i \in 1..Len(s) :
        2 * Abs(s[i] * (Len(s) - 1) - (lo * (Len(s) - 1) + (i - 1) * (hi - lo)))
            <= Len(s) - 1

StrictlyAscending(s) == \A i \in 1..(Len(s) - 1) : s[i] < s[i + 1]

\* C13 as stated: for every N >= 1 (and a positive V_max) the active coordinate of
\* each pole's block takes N evenly spaced, strictly ascending values, the
\* first exactly -V_max and the last exactly V_max.
C13_SweepFromOneSample ==
    ("V_ind" \in names /\ N1 >= 1 /\ v_range > 0) =>
        \A k \in 1..3 :
            /\ Len(SweepOf(k)) = N1
            /\ SweepOf(k)[1] = -v_range
            /\ SweepOf(k)[N1] = v_range
            /\ EvenlySpaced(SweepOf(k), -v_range, v_range)
            /\ StrictlyAscending(SweepOf(k))

\* C13: for every N >= 2 the active coordinate of each pole's block takes N
\* evenly spaced values, the first exactly -V_max and the last exactly V_max,
\* strictly ascending when V_max > 0; for N = 1 the block is the single value
\* -V_max.
C13_SweepFromTwoSamples ==
    "V_ind" \in names =>
        \A k \in 1..3 :
            /\ Len(SweepOf(k)) = N1
            /\ N1 = 1 => SweepOf(k) = <<-v_range>>
            /\ N1 >= 2 =>
                  /\ SweepOf(k)[1] = -v_range
                  /\ SweepOf(k)[N1] = v_range
                  /\ EvenlySpaced(SweepOf(k), -v_range, v_range)
                  /\ v_range > 0 => StrictlyAscending(SweepOf(k))

C13_Witness ==
    /\ "V_ind" \in names /\ N1 = 3 /\ v_range = 10
    /\ SweepOf(2) = <<-10, 0, 10>>

\* every coordinate of the voltage columns of the rows of a data set is in
\* [-v_range, v_range]
VoltagesWithin(df) ==
    \A i \in 1..Len(df) : \A k \in 1..3 :
        -v_range <= VoltageOf(df[i])[k] /\ VoltageOf(df[i])[k] <= v_range

\* C14: every coordinate of every voltage vector in every generated data set (sweep
\* rows, random rows of the full set, validation rows) lies in [-V_max, V_max].
C14_VoltagesInRange ==
    /\ VoltagesWithin(individual_calibration_set)
    /\ VoltagesWithin(nl_individual_calibration_set)
    /\ VoltagesWithin(full_calibration_set)
    /\ VoltagesWithin(val_set)

====
